---- MODULE Spec2Model ----
(***************************************************************************)
(* A model of the two utilities of tf_classification:                      *)
(*   - export.py: export(...) turns a checkpoint into a serving bundle or  *)
(*     into a frozen graph file plus optional tflite / coreml files;       *)
(*   - preprocessing/decode_example.py: decode_serialized_example(...)     *)
(*     parses the requested fields of a tfrecord example.                  *)
(* The TensorFlow library calls are modelled by their effect on the file   *)
(* system and on the values the code passes around; the control flow, the  *)
(* order of the checks and of the writes are those of the source.          *)
(* export.py is read with the Python 2 semantics its __future__ imports    *)
(* target (open(path, 'w') accepts the serialized graph).                  *)
(***************************************************************************)
EXTENDS Integers, Sequences, FiniteSets, TLC

\* ------------------------------------------------------------------ bounds
\* number of export calls made one after the other on the same file system
MaxCalls == 2
\* longest features_to_fetch list handed to decode_serialized_example
MaxFetch == 2
\* largest channel count of an encoded image
MaxChannels == 5

\* ------------------------------------------------------------ export: data
None == "None"

\* export_dir and the version numbers the calls choose among
ExportDir == <<"export">>
Versions == {1, 2}

\* checkpoint_path: a checkpoint file, a directory holding checkpoints, a
\* directory holding none
CheckpointPaths == {"model.ckpt", "ckpt_dir", "empty_dir"}

\* the arguments of export (cfg is fixed)
ExportArgs ==
  [ checkpoint_path : CheckpointPaths,
    export_version : Versions,
    export_for_serving : BOOLEAN,
    export_tflite : BOOLEAN,
    export_coreml : BOOLEAN,
    add_preprocess_step : BOOLEAN,
    output_classes : BOOLEAN,
    class_names : {None, "class_names"},
    batch_size : {None, "1"},
    raveled_input : BOOLEAN ]

\* os.path.join
join(path, name) == Append(path, name)

\* os.path.exists on the modelled file system (a set of paths)
exists(files, path) == path \in files

\* os.makedirs: the directory and every missing parent
makedirs(files, path) ==
  files \cup { SubSeq(path, 1, n) : n \in 1..Len(path) }

\* os.path.isdir(checkpoint_path)
isdir(path) == path \in {"ckpt_dir", "empty_dir"}

\* tf.train.latest_checkpoint(checkpoint_dir)
latest_checkpoint(dir) ==
  IF dir = "ckpt_dir" THEN "ckpt_dir/model.ckpt-latest" ELSE None

\* the files under a directory
FilesUnder(files, dir) ==
  { p \in files : Len(p) > Len(dir) /\ SubSeq(p, 1, Len(dir)) = dir }

\* signature_constants.DEFAULT_SERVING_SIGNATURE_DEF_KEY
DEFAULT_SERVING_SIGNATURE_DEF_KEY == "serving_default"

\* the locals of a call before any of them is assigned
Undefined == "undefined"
UnboundPath == << >>
NoMap == [ k \in {} |-> None ]
NoGraph ==
  [ nodes |-> {}, input_placeholder |-> Undefined, input_shape |-> << >>,
    image_bytes_placeholder |-> Undefined, class_scores |-> Undefined,
    predicted_classes |-> Undefined, names_value |-> Undefined,
    output_node |-> Undefined ]
NoGraphDef == [ input_node_names |-> << >>, output_node_names |-> << >>,
                optimized |-> FALSE ]

\* the state of one export call: its position, the file system (fs0 when the
\* call began), the files it has written and the directories it has created
\* so far, and its locals
NewCall(files) ==
  [ pc |-> "begin", fs |-> files, fs0 |-> files, outcome |-> "running",
    written |-> {}, made |-> {},
    graph |-> NoGraph, checkpoint_path |-> Undefined,
    sess |-> FALSE, restored |-> None,
    save_dir |-> UnboundPath, save_path |-> UnboundPath,
    signature_def_map |-> NoMap, graph_def |-> NoGraphDef ]

\* an exception leaves export
Fail(c, error) == [ c EXCEPT !.pc = "failed", !.outcome = error ]

\* a directory is created (os.makedirs, or the bundle builder's own mkdir)
MakeDir(c, path) ==
  [ c EXCEPT !.fs = makedirs(c.fs, path),
             !.made = c.made \cup (makedirs(c.fs, path) \ c.fs) ]

\* a file is written (created or overwritten)
WriteFile(c, path) ==
  [ c EXCEPT !.fs = c.fs \cup {path}, !.written = c.written \cup {path} ]

\* --------------------------------------------------- export: the steps
\* export.py 71-73: the export directory is created when absent
MakeExportDir(a, c) ==
  LET d == IF ~exists(c.fs, ExportDir) THEN MakeDir(c, ExportDir) ELSE c
  IN [ d EXCEPT !.pc = "graph" ]

\* export.py 75-201: the inference graph
BuildGraph(a, c) ==
  LET input_shape ==
        IF a.add_preprocess_step THEN <<"?", "H", "W", "3">>
        ELSE IF a.raveled_input THEN <<a.batch_size, "H*W*3">>
        ELSE <<a.batch_size, "H", "W", "3">>
      names_value ==
        IF ~a.output_classes THEN Undefined
        ELSE IF a.class_names = None THEN "range"
        ELSE a.class_names
      g == [ nodes |-> {"images", "Predictions"}
                       \cup (IF a.add_preprocess_step THEN {"image_bytes"} ELSE {})
                       \cup (IF a.output_classes THEN {"names"} ELSE {}),
             input_placeholder |-> "images:0",
             input_shape |-> input_shape,
             image_bytes_placeholder |->
               IF a.add_preprocess_step THEN "image_bytes:0" ELSE Undefined,
             class_scores |-> "net/Predictions:0",
             predicted_classes |->
               IF a.output_classes THEN "names:0" ELSE Undefined,
             names_value |-> names_value,
             output_node |-> "Predictions:0" ]
  IN [ c EXCEPT !.graph = g, !.pc = "checkpoint" ]

\* a variant that goes on when no latest checkpoint is found
ResolveCheckpoint_NoCheck(a, c) ==
  [ c EXCEPT !.checkpoint_path =
               IF isdir(a.checkpoint_path)
               THEN latest_checkpoint(a.checkpoint_path) ELSE a.checkpoint_path,
             !.pc = "session" ]

\* export.py 203-211: a directory is resolved to its latest checkpoint
ResolveCheckpoint(a, c) ==
  IF isdir(a.checkpoint_path)
  THEN IF latest_checkpoint(a.checkpoint_path) = None
       THEN Fail(c, "ValueError")
       ELSE [ c EXCEPT !.checkpoint_path = latest_checkpoint(a.checkpoint_path),
                       !.pc = "session" ]
  ELSE [ c EXCEPT !.checkpoint_path = a.checkpoint_path, !.pc = "session" ]

\* export.py 213-220: the session
OpenSession(a, c) == [ c EXCEPT !.sess = TRUE, !.pc = "restore" ]

\* export.py 222-228 and 278-282: the weights are restored in either branch
Restore(a, c) ==
  [ c EXCEPT !.restored = c.checkpoint_path,
             !.pc = IF a.export_for_serving THEN "builder" ELSE "freeze" ]

\* a variant whose builder writes into an existing version directory
SavedModelBuilder_Overwrite(a, c) ==
  [ MakeDir(c, join(ExportDir, a.export_version))
      EXCEPT !.save_path = join(ExportDir, a.export_version),
             !.pc = "signatures" ]

\* export.py 230-232 (and the docstring, 57-58): the bundle builder refuses
\* a version that exists, and creates the version directory otherwise
SavedModelBuilder(a, c) ==
  LET save_path == join(ExportDir, a.export_version)
  IN IF exists(c.fs, save_path)
     THEN Fail([ c EXCEPT !.save_path = save_path ], "AssertionError")
     ELSE [ MakeDir(c, save_path) EXCEPT !.save_path = save_path,
                                         !.pc = "signatures" ]

\* a variant that binds the image-bytes signature whether or not the
\* preprocessing step is in the graph
BuildSignatureDefMap_AlwaysBytes(a, c) ==
  LET signature_def_outputs ==
        ("scores" :> c.graph.class_scores)
        @@ (IF a.output_classes
            THEN ("classes" :> c.graph.predicted_classes) ELSE NoMap)
      image_bytes_prediction_signature ==
        [ inputs |-> ("images" :> c.graph.image_bytes_placeholder),
          outputs |-> signature_def_outputs, method_name |-> "predict" ]
      image_array_prediction_signature ==
        [ inputs |-> ("images" :> c.graph.input_placeholder),
          outputs |-> signature_def_outputs, method_name |-> "predict" ]
      m == ("predict_image_bytes" :> image_bytes_prediction_signature)
           @@ ("predict_image_array" :> image_array_prediction_signature)
           @@ (DEFAULT_SERVING_SIGNATURE_DEF_KEY :> image_array_prediction_signature)
  IN [ c EXCEPT !.signature_def_map = m, !.pc = "save" ]

\* export.py 234-262: the signature map
BuildSignatureDefMap(a, c) ==
  LET signature_def_outputs ==
        ("scores" :> c.graph.class_scores)
        @@ (IF a.output_classes
            THEN ("classes" :> c.graph.predicted_classes) ELSE NoMap)
      image_bytes_prediction_signature ==
        [ inputs |-> ("images" :> c.graph.image_bytes_placeholder),
          outputs |-> signature_def_outputs, method_name |-> "predict" ]
      image_array_prediction_signature ==
        [ inputs |-> ("images" :> c.graph.input_placeholder),
          outputs |-> signature_def_outputs, method_name |-> "predict" ]
      m == (IF a.add_preprocess_step
            THEN ("predict_image_bytes" :> image_bytes_prediction_signature)
            ELSE NoMap)
           @@ ("predict_image_array" :> image_array_prediction_signature)
           @@ (DEFAULT_SERVING_SIGNATURE_DEF_KEY :> image_array_prediction_signature)
  IN [ c EXCEPT !.signature_def_map = m, !.pc = "save" ]

\* export.py 264-273: the bundle is written under the version directory
SaveBundle(a, c) ==
  LET d == WriteFile(WriteFile(c, join(c.save_path, "variables")),
                     join(c.save_path, "saved_model.pb"))
  IN [ d EXCEPT !.pc = "coreml" ]

\* export.py 284-308: variables to constants, then the inference optimizer
\* unless the preprocessing nodes are in the graph
FreezeGraph(a, c) ==
  LET input_node_names ==
        <<"images">> \o (IF a.add_preprocess_step THEN <<"image_bytes">> ELSE << >>)
      output_node_names ==
        <<"Predictions">> \o (IF a.output_classes THEN <<"names">> ELSE << >>)
  IN [ c EXCEPT !.graph_def = [ input_node_names |-> input_node_names,
                                output_node_names |-> output_node_names,
                                optimized |-> ~a.add_preprocess_step ],
                !.pc = "write" ]

\* a variant that refuses a version directory that exists, as the bundle
\* builder does
WriteGraph_VersionCheck(a, c) ==
  LET save_dir == join(ExportDir, a.export_version)
      save_path == join(save_dir, "optimized_model.pb")
  IN IF exists(c.fs, save_dir) THEN Fail(c, "AssertionError")
     ELSE [ WriteFile(MakeDir(c, save_dir), save_path)
              EXCEPT !.save_dir = save_dir, !.save_path = save_path,
                     !.pc = "tflite" ]

\* export.py 310-317: the version directory is created when absent and the
\* graph file is written, before any check of the tflite / coreml options
WriteGraph(a, c) ==
  LET save_dir == join(ExportDir, a.export_version)
      d == IF ~exists(c.fs, save_dir) THEN MakeDir(c, save_dir) ELSE c
      save_path == join(save_dir, "optimized_model.pb")
  IN [ WriteFile(d, save_path) EXCEPT !.save_dir = save_dir,
                                      !.save_path = save_path,
                                      !.pc = "tflite" ]

\* a variant without the batch size assertion
ExportTflite_NoAssert(a, c) ==
  IF ~a.export_tflite THEN [ c EXCEPT !.pc = "coreml" ]
  ELSE [ WriteFile(c, join(c.save_dir, "optimized_model.tflite"))
           EXCEPT !.pc = "coreml" ]

\* export.py 324-346: the tflite file (only in the non-serving branch)
ExportTflite(a, c) ==
  IF ~a.export_tflite THEN [ c EXCEPT !.pc = "coreml" ]
  ELSE IF a.batch_size = None THEN Fail(c, "AssertionError")
  ELSE [ WriteFile(c, join(c.save_dir, "optimized_model.tflite"))
           EXCEPT !.pc = "coreml" ]

\* export.py 349-369: the coreml file, after either branch; save_dir is a
\* local the serving branch never binds
ExportCoreml(a, c, importable) ==
  IF ~a.export_coreml THEN [ c EXCEPT !.pc = "done", !.outcome = "ok" ]
  ELSE IF ~importable THEN Fail(c, "ValueError")
  ELSE IF a.batch_size = None THEN Fail(c, "AssertionError")
  ELSE IF a.raveled_input # FALSE THEN Fail(c, "AssertionError")
  ELSE IF c.save_dir = UnboundPath THEN Fail(c, "UnboundLocalError")
  ELSE [ WriteFile(c, join(c.save_dir, "optimized_model.mlmodel"))
           EXCEPT !.pc = "done", !.outcome = "ok" ]

Finished(c) == c.pc \in {"done", "failed"}

\* one step of a call, by its position
ExportStep(a, c, importable) ==
  CASE c.pc = "begin" -> MakeExportDir(a, c)
    [] c.pc = "graph" -> BuildGraph(a, c)
    [] c.pc = "checkpoint" -> ResolveCheckpoint(a, c)
    [] c.pc = "session" -> OpenSession(a, c)
    [] c.pc = "restore" -> Restore(a, c)
    [] c.pc = "builder" -> SavedModelBuilder(a, c)
    [] c.pc = "signatures" -> BuildSignatureDefMap(a, c)
    [] c.pc = "save" -> SaveBundle(a, c)
    [] c.pc = "freeze" -> FreezeGraph(a, c)
    [] c.pc = "write" -> WriteGraph(a, c)
    [] c.pc = "tflite" -> ExportTflite(a, c)
    [] c.pc = "coreml" -> ExportCoreml(a, c, importable)
    [] OTHER -> c

\* export(...) run to its end on a file system: export.py 47-369
RECURSIVE RunFrom(_, _, _)
RunFrom(a, c, importable) ==
  IF Finished(c) THEN c ELSE RunFrom(a, ExportStep(a, c, importable), importable)

export(a, files, importable) == RunFrom(a, NewCall(files), importable)

\* ------------------------------------------- export: preprocess_image
\* export.py 85
input_depth == 3

\* the shape of an image tensor: its rank and, from rank 3 on, the size of
\* its last axis; resized once it has the network's input size
Image(rank, channels) ==
  [ rank |-> rank, channels |-> channels, resized |-> FALSE ]

\* tf.image.grayscale_to_rgb: the last axis tiled three times
grayscale_to_rgb(image) == [ image EXCEPT !.channels = 3 * image.channels ]

\* tf.expand_dims(image, 2) of a [height, width] tensor
expand_dims(image) == [ image EXCEPT !.rank = image.rank + 1, !.channels = 1 ]

\* image[:, :, 0]
first_channel(image) == [ image EXCEPT !.rank = image.rank - 1, !.channels = 0 ]

\* image[:, :, :3]
first_three(image) ==
  [ image EXCEPT !.channels = IF image.channels < 3 THEN image.channels ELSE 3 ]

\* export.py 105-111: rank 2 gets a channel axis; num_channels is read here,
\* once, and the three conditionals below all test this value
EnsureRank3(image) == IF image.rank = 2 THEN expand_dims(image) ELSE image

\* export.py 114-118
GrayscaleToRgb(image, num_channels) ==
  IF num_channels = 1 THEN grayscale_to_rgb(image) ELSE image

\* a variant that converts both channels of a grayscale + alpha image
GrayscaleAlphaToRgb_KeepAlpha(image, num_channels) ==
  IF num_channels = 2 THEN grayscale_to_rgb(image) ELSE image

\* export.py 121-126: the alpha channel is stripped before the conversion
GrayscaleAlphaToRgb(image, num_channels) ==
  IF num_channels = 2 THEN grayscale_to_rgb(expand_dims(first_channel(image)))
  ELSE image

\* export.py 129-133
DropExtraChannels(image, num_channels) ==
  IF num_channels > 3 THEN first_three(image) ELSE image

\* export.py 136-143: resized to the input size and rescaled
Resize(image) == [ image EXCEPT !.resized = TRUE ]

\* export.py 97-144, on the tensor tf.image.decode_image returns
preprocess_image(decoded) ==
  LET image == EnsureRank3(decoded)
      num_channels == image.channels
  IN Resize(DropExtraChannels(
       GrayscaleAlphaToRgb(GrayscaleToRgb(image, num_channels), num_channels),
       num_channels))

\* ------------------------------------------------- decode_example: data
\* decode_example.py 18-46: the schema table, key -> (kind, dtype)
FeatureSchema ==
  << <<"image/height", "FixedLen", "int64">>,
     <<"image/width", "FixedLen", "int64">>,
     <<"image/colorspace", "FixedLen", "string">>,
     <<"image/channels", "FixedLen", "int64">>,
     <<"image/format", "FixedLen", "string">>,
     <<"image/filename", "FixedLen", "string">>,
     <<"image/id", "FixedLen", "string">>,
     <<"image/encoded", "FixedLen", "string">>,
     <<"image/extra", "FixedLen", "string">>,
     <<"image/class/label", "FixedLen", "int64">>,
     <<"image/class/text", "FixedLen", "string">>,
     <<"image/class/conf", "FixedLen", "float32">>,
     <<"image/object/bbox/xmin", "VarLen", "float32">>,
     <<"image/object/bbox/xmax", "VarLen", "float32">>,
     <<"image/object/bbox/ymin", "VarLen", "float32">>,
     <<"image/object/bbox/ymax", "VarLen", "float32">>,
     <<"image/object/bbox/label", "VarLen", "int64">>,
     <<"image/object/bbox/text", "VarLen", "string">>,
     <<"image/object/bbox/conf", "VarLen", "float32">>,
     <<"image/object/bbox/score", "VarLen", "float32">>,
     <<"image/object/parts/x", "VarLen", "float32">>,
     <<"image/object/parts/y", "VarLen", "float32">>,
     <<"image/object/parts/v", "VarLen", "int64">>,
     <<"image/object/parts/score", "VarLen", "float32">>,
     <<"image/object/count", "FixedLen", "int64">>,
     <<"image/object/area", "VarLen", "float32">>,
     <<"image/object/id", "VarLen", "string">> >>

\* a variant of the chain whose branch for the fixed-length count feature
\* takes .values
DispatchBranches_CountAsValues ==
  << <<"image/height", "feature">>,
     <<"image/width", "feature">>,
     <<"image/colorspace", "feature">>,
     <<"image/channels", "feature">>,
     <<"image/format", "feature">>,
     <<"image/filename", "feature">>,
     <<"image/id", "feature">>,
     <<"image/encoded", "image">>,
     <<"image/extra", "feature">>,
     <<"image/class/label", "feature">>,
     <<"image/class/text", "feature">>,
     <<"image/class/conf", "feature">>,
     <<"image/object/bbox/xmin", "values">>,
     <<"image/object/bbox/xmax", "values">>,
     <<"image/object/bbox/ymin", "values">>,
     <<"image/object/bbox/ymax", "values">>,
     <<"image/object/bbox/label", "values">>,
     <<"image/object/bbox/text", "values">>,
     <<"image/object/bbox/conf", "values">>,
     <<"image/object/bbox/score", "values">>,
     <<"image/object/parts/x", "values">>,
     <<"image/object/parts/y", "values">>,
     <<"image/object/parts/v", "values">>,
     <<"image/object/parts/score", "values">>,
     <<"image/object/count", "values">>,
     <<"image/object/area", "values">>,
     <<"image/object/id", "values">> >>

\* decode_example.py 56-113: the if / elif chain, in order: the key a branch
\* tests and what it stores ("feature": features[key]; "values":
\* features[key].values; "image": the decode_image branch of 72-75)
DispatchBranches ==
  << <<"image/height", "feature">>,
     <<"image/width", "feature">>,
     <<"image/colorspace", "feature">>,
     <<"image/channels", "feature">>,
     <<"image/format", "feature">>,
     <<"image/filename", "feature">>,
     <<"image/id", "feature">>,
     <<"image/encoded", "image">>,
     <<"image/extra", "feature">>,
     <<"image/class/label", "feature">>,
     <<"image/class/text", "feature">>,
     <<"image/class/conf", "feature">>,
     <<"image/object/bbox/xmin", "values">>,
     <<"image/object/bbox/xmax", "values">>,
     <<"image/object/bbox/ymin", "values">>,
     <<"image/object/bbox/ymax", "values">>,
     <<"image/object/bbox/label", "values">>,
     <<"image/object/bbox/text", "values">>,
     <<"image/object/bbox/conf", "values">>,
     <<"image/object/bbox/score", "values">>,
     <<"image/object/parts/x", "values">>,
     <<"image/object/parts/y", "values">>,
     <<"image/object/parts/v", "values">>,
     <<"image/object/parts/score", "values">>,
     <<"image/object/count", "feature">>,
     <<"image/object/area", "values">>,
     <<"image/object/id", "values">> >>

\* a value the decoder handles: a dense tensor, or the sparse tensor parsed
\* for a variable-length feature; channels is 0 where it does not apply
Value(kind, op, key, dtype, rank, channels) ==
  [ kind |-> kind, op |-> op, key |-> key, dtype |-> dtype,
    rank |-> rank, channels |-> channels ]

\* a serialized example; of its content only the channel count of the
\* encoded image is kept
Example(channels) == [ image_channels |-> channels ]

\* a variant that falls back to the first entry for an unknown key
SchemaEntry_Default(feature_key) ==
  IF \E i \in 1..Len(FeatureSchema) : FeatureSchema[i][1] = feature_key
  THEN CHOOSE i \in 1..Len(FeatureSchema) : FeatureSchema[i][1] = feature_key
  ELSE 1

\* the dict subscript of decode_example.py 18-46: the index of the schema
\* entry of a key, 0 for a KeyError
SchemaEntry(feature_key) ==
  IF \E i \in 1..Len(FeatureSchema) : FeatureSchema[i][1] = feature_key
  THEN CHOOSE i \in 1..Len(FeatureSchema) : FeatureSchema[i][1] = feature_key
  ELSE 0

\* decode_example.py 16-46: the first loop; feature_map as the set of keys
\* registered (each with its schema entry), or the KeyError of the first
\* unknown key
RECURSIVE BuildFeatureMap(_, _, _)
BuildFeatureMap(features_to_fetch, i, feature_map) ==
  IF i > Len(features_to_fetch) THEN [ error |-> "none", feature_map |-> feature_map ]
  ELSE IF SchemaEntry(features_to_fetch[i][1]) = 0
       THEN [ error |-> "KeyError", feature_map |-> feature_map ]
  ELSE BuildFeatureMap(features_to_fetch, i + 1,
                       feature_map \cup {features_to_fetch[i][1]})

\* decode_example.py 48-51: tf.parse_single_example; it refuses an empty
\* features dict with ValueError('Missing features.'), and otherwise gives a
\* dense scalar for a FixedLenFeature([]), a sparse tensor for a VarLenFeature
parse_single_example(serialized_example, feature_map) ==
  IF feature_map = {}
  THEN [ error |-> "ValueError", features |-> NoMap ]
  ELSE [ error |-> "none",
         features |->
           [ k \in feature_map |->
               LET e == FeatureSchema[SchemaEntry(k)]
               IN IF e[2] = "FixedLen"
                  THEN Value("Tensor", "parse", k, e[3], 0,
                             IF k = "image/encoded"
                             THEN serialized_example.image_channels ELSE 0)
                  ELSE Value("SparseTensor", "parse", k, e[3], 1, 0) ] ]

\* tf.image.decode_jpeg(contents, channels): channels = 0 keeps the number
\* of channels of the encoded image
decode_jpeg(contents, channels) ==
  Value("Tensor", "decode_jpeg", contents.key, "uint8", 3,
        IF channels = 0 THEN contents.channels ELSE channels)

\* SparseTensor.values: the flat values
values(t) == Value("Tensor", "values", t.key, t.dtype, 1, 0)

\* the branch of the chain a key takes: 0 when no branch tests it
Branch(feature_key) ==
  IF \E i \in 1..Len(DispatchBranches) : DispatchBranches[i][1] = feature_key
  THEN CHOOSE i \in 1..Len(DispatchBranches) :
         /\ DispatchBranches[i][1] = feature_key
         /\ \A j \in 1..(i - 1) : DispatchBranches[j][1] # feature_key
  ELSE 0

\* a variant that decodes whatever decode_image says
DecodeImage_Always(feature, decode_image) == decode_jpeg(feature, 3)

\* decode_example.py 72-75: the image branch asks for 3 channels
DecodeImage(feature, decode_image) ==
  IF decode_image THEN decode_jpeg(feature, 3) ELSE feature

\* a variant of the loop that keeps the first value stored under a name
RECURSIVE Dispatch_KeepFirst(_, _, _, _, _)
Dispatch_KeepFirst(features_to_fetch, features, decode_image, i, parsed_features) ==
  IF i > Len(features_to_fetch)
  THEN [ error |-> "none", parsed_features |-> parsed_features ]
  ELSE LET feature_key == features_to_fetch[i][1]
           feature_name == features_to_fetch[i][2]
           b == Branch(feature_key)
           how == IF b = 0 THEN "skip" ELSE DispatchBranches[b][2]
       IN IF how = "skip"
          THEN Dispatch_KeepFirst(features_to_fetch, features, decode_image, i + 1,
                                  parsed_features)
          ELSE IF how = "values" /\ features[feature_key].kind # "SparseTensor"
          THEN [ error |-> "AttributeError", parsed_features |-> parsed_features ]
          ELSE LET v == IF how = "values" THEN values(features[feature_key])
                        ELSE IF how = "image"
                             THEN DecodeImage(features[feature_key], decode_image)
                             ELSE features[feature_key]
               IN Dispatch_KeepFirst(features_to_fetch, features, decode_image, i + 1,
                                     parsed_features @@ (feature_name :> v))

\* decode_example.py 54-113: the second loop; a key no branch tests stores
\* nothing, .values of a dense tensor is an AttributeError, and a later pair
\* overwrites an earlier one of the same name
RECURSIVE Dispatch(_, _, _, _, _)
Dispatch(features_to_fetch, features, decode_image, i, parsed_features) ==
  IF i > Len(features_to_fetch)
  THEN [ error |-> "none", parsed_features |-> parsed_features ]
  ELSE LET feature_key == features_to_fetch[i][1]
           feature_name == features_to_fetch[i][2]
           b == Branch(feature_key)
           how == IF b = 0 THEN "skip" ELSE DispatchBranches[b][2]
       IN IF how = "skip"
          THEN Dispatch(features_to_fetch, features, decode_image, i + 1,
                        parsed_features)
          ELSE IF how = "values" /\ features[feature_key].kind # "SparseTensor"
          THEN [ error |-> "AttributeError", parsed_features |-> parsed_features ]
          ELSE LET v == IF how = "values" THEN values(features[feature_key])
                        ELSE IF how = "image"
                             THEN DecodeImage(features[feature_key], decode_image)
                             ELSE features[feature_key]
               IN Dispatch(features_to_fetch, features, decode_image, i + 1,
                           (feature_name :> v) @@ parsed_features)

\* what a call of the decoder leaves: how it ended, whether the record was
\* parsed, whether a mapping was returned, and the mapping
NoResult(error) ==
  [ outcome |-> error, parsed |-> FALSE, returned |-> FALSE,
    parsed_features |-> NoMap ]

\* decode_example.py 7-115
decode_serialized_example(serialized_example, features_to_fetch, decode_image) ==
  LET fm == BuildFeatureMap(features_to_fetch, 1, {})
  IN IF fm.error # "none" THEN NoResult(fm.error)
     ELSE LET p == parse_single_example(serialized_example, fm.feature_map)
              d == Dispatch(features_to_fetch, p.features, decode_image, 1, NoMap)
          IN IF p.error # "none" THEN NoResult(p.error)
             ELSE IF d.error # "none"
             THEN [ NoResult(d.error) EXCEPT !.parsed = TRUE ]
             ELSE [ outcome |-> "ok", parsed |-> TRUE, returned |-> TRUE,
                    parsed_features |-> d.parsed_features ]

\* ------------------------------------------------------------- the state
VARIABLES
  calls,  \* export calls begun so far
  args,   \* the arguments of the current (or last) export call
  call,   \* the state of the current (or last) export call
  dcall,  \* the current call of decode_serialized_example and its result
  img     \* the image preprocess_image is working on

vars == <<calls, args, call, dcall, img>>

IdleArgs ==
  [ checkpoint_path |-> "model.ckpt", export_version |-> 1,
    export_for_serving |-> FALSE, export_tflite |-> FALSE,
    export_coreml |-> FALSE, add_preprocess_step |-> FALSE,
    output_classes |-> FALSE, class_names |-> None, batch_size |-> None,
    raveled_input |-> FALSE ]

\* before the first call: export_dir may or may not exist, and holds nothing
Idle(files) == [ NewCall(files) EXCEPT !.pc = "idle" ]

DecoderIdle ==
  [ pc |-> "idle", serialized_example |-> Example(input_depth),
    features_to_fetch |-> << >>, passed |-> "omitted", decode_image |-> TRUE,
    result |-> NoResult("none") ]

PreprocessIdle ==
  [ pc |-> "idle", source |-> Image(3, input_depth), image |-> Image(3, input_depth),
    num_channels |-> 0 ]

\* the exporter: before the first call export_dir may or may not exist, and
\* holds nothing
Init ==
  /\ calls = 0
  /\ args = IdleArgs
  /\ \E files \in {{}, {ExportDir}} : call = Idle(files)
  /\ dcall = DecoderIdle
  /\ img = PreprocessIdle

\* a call of export begins (one call at a time: the script is synchronous)
Call ==
  /\ call.pc = "idle"
  /\ calls < MaxCalls
  /\ calls' = calls + 1
  /\ \E a \in ExportArgs :
       /\ args' = a
       /\ call' = NewCall(call.fs)
  /\ UNCHANGED <<dcall, img>>

\* the script ends (export returned or raised); only the files remain
Exit ==
  /\ Finished(call)
  /\ call' = Idle(call.fs)
  /\ args' = IdleArgs
  /\ UNCHANGED <<calls, dcall, img>>

At(pc) == call.pc = pc
Step(next) == call' = next /\ UNCHANGED <<calls, args, dcall, img>>

DoMakeExportDir == At("begin") /\ Step(MakeExportDir(args, call))
DoBuildGraph == At("graph") /\ Step(BuildGraph(args, call))
DoResolveCheckpoint == At("checkpoint") /\ Step(ResolveCheckpoint(args, call))
DoOpenSession == At("session") /\ Step(OpenSession(args, call))
DoRestore == At("restore") /\ Step(Restore(args, call))
DoSavedModelBuilder == At("builder") /\ Step(SavedModelBuilder(args, call))
DoBuildSignatureDefMap == At("signatures") /\ Step(BuildSignatureDefMap(args, call))
DoSaveBundle == At("save") /\ Step(SaveBundle(args, call))
DoFreezeGraph == At("freeze") /\ Step(FreezeGraph(args, call))
DoWriteGraph == At("write") /\ Step(WriteGraph(args, call))
DoExportTflite == At("tflite") /\ Step(ExportTflite(args, call))
\* whether tfcoreml can be imported is the environment's choice
DoExportCoreml ==
  At("coreml") /\ \E importable \in BOOLEAN : Step(ExportCoreml(args, call, importable))

Next ==
  \/ Call
  \/ DoMakeExportDir
  \/ DoBuildGraph
  \/ DoResolveCheckpoint
  \/ DoOpenSession
  \/ DoRestore
  \/ DoSavedModelBuilder
  \/ DoBuildSignatureDefMap
  \/ DoSaveBundle
  \/ DoFreezeGraph
  \/ DoWriteGraph
  \/ DoExportTflite
  \/ DoExportCoreml
  \/ Exit

Spec == Init /\ [][Next]_vars

\* ------------------------------------------------ the decoder's calls
SchemaKeys == { FeatureSchema[i][1] : i \in 1..Len(FeatureSchema) }

\* the keys and output names the requests are drawn from: every key of the
\* schema and one key outside it
FeatureKeys == SchemaKeys \cup {"image/unknown"}
FeatureNames == {"x", "y"}

FetchLists(keys) ==
  UNION { [1..n -> keys \X FeatureNames] : n \in 0..MaxFetch }

InitDecoder ==
  /\ calls = 0
  /\ args = IdleArgs
  /\ call = Idle({})
  /\ dcall = DecoderIdle
  /\ img = PreprocessIdle

\* decode_example.py 7: decode_image=True; the value the body sees when the
\* caller passes True or False, or leaves the argument out
DecodeImageArgument(passed) ==
  IF passed = "omitted" THEN TRUE ELSE passed = "True"

\* decode_serialized_example is called and returns or raises
Decode(keys, channels) ==
  /\ dcall.pc = "idle"
  /\ img.pc = "idle"
  /\ \E features_to_fetch \in FetchLists(keys),
        passed \in {"omitted", "True", "False"}, c \in channels :
       dcall' = [ pc |-> "returned", serialized_example |-> Example(c),
                  features_to_fetch |-> features_to_fetch,
                  passed |-> passed,
                  decode_image |-> DecodeImageArgument(passed),
                  result |-> decode_serialized_example(Example(c), features_to_fetch,
                                                       DecodeImageArgument(passed)) ]
  /\ UNCHANGED <<calls, args, call, img>>

\* the caller takes the result; the decoder keeps nothing between calls
DecodeReturn ==
  /\ dcall.pc = "returned"
  /\ dcall' = DecoderIdle
  /\ UNCHANGED <<calls, args, call, img>>

DecodeAny == Decode(FeatureKeys, {input_depth})

NextDecoder ==
  \/ DecodeAny
  \/ DecodeReturn

SpecDecoder == InitDecoder /\ [][NextDecoder]_vars

\* --------------------------------------- image bytes to a pixel tensor
\* the decoder on requests for the image fields, over images of every
\* channel count, and preprocess_image step by step
ImageKeys == {"image/encoded", "image/channels"}

DecodeImageFields == Decode(ImageKeys, 1..MaxChannels)

ImgStep(pc, next) ==
  /\ img.pc = pc
  /\ img' = next
  /\ UNCHANGED <<calls, args, call, dcall>>

\* export.py 101-102: tf.image.decode_image gives [height, width, channels];
\* rank 2 is the case the code provides for at 105-109
ImgDecode ==
  /\ dcall.pc = "idle"
  /\ \E source \in {Image(2, 0)} \cup { Image(3, c) : c \in 1..MaxChannels } :
       ImgStep("idle", [ pc |-> "decoded", source |-> source, image |-> source,
                         num_channels |-> 0 ])

ImgEnsureRank3 ==
  ImgStep("decoded", [ img EXCEPT !.pc = "rank3",
                                  !.image = EnsureRank3(img.image),
                                  !.num_channels = EnsureRank3(img.image).channels ])

ImgGrayscaleToRgb ==
  ImgStep("rank3", [ img EXCEPT !.pc = "gray",
                                !.image = GrayscaleToRgb(img.image, img.num_channels) ])

ImgGrayscaleAlphaToRgb ==
  ImgStep("gray", [ img EXCEPT !.pc = "gray_alpha",
                               !.image = GrayscaleAlphaToRgb(img.image, img.num_channels) ])

ImgDropExtraChannels ==
  ImgStep("gray_alpha", [ img EXCEPT !.pc = "rgb",
                                     !.image = DropExtraChannels(img.image, img.num_channels) ])

ImgResize ==
  ImgStep("rgb", [ img EXCEPT !.pc = "done", !.image = Resize(img.image) ])

\* map_fn goes on to the next image
ImgReturn == ImgStep("done", PreprocessIdle)

NextImage ==
  \/ DecodeImageFields
  \/ DecodeReturn
  \/ ImgDecode
  \/ ImgEnsureRank3
  \/ ImgGrayscaleToRgb
  \/ ImgGrayscaleAlphaToRgb
  \/ ImgDropExtraChannels
  \/ ImgResize
  \/ ImgReturn

SpecImage == InitDecoder /\ [][NextImage]_vars

\* ----------------------------------------------- export: properties
VersionDir(a) == join(ExportDir, a.export_version)
GraphFile(a) == join(VersionDir(a), "optimized_model.pb")
TfliteFile(a) == join(VersionDir(a), "optimized_model.tflite")
CoremlFile(a) == join(VersionDir(a), "optimized_model.mlmodel")
BundleFile(a) == join(VersionDir(a), "saved_model.pb")
InCall == call.pc # "idle"

\* C1: a call with export_tflite or export_coreml set and batch_size = None
\* fails, and has written no file when it fails (the claim as stated; the
\* code writes optimized_model.pb, or the serving bundle, before it checks
\* batch_size, and ignores export_tflite in serving mode)
C1_FailsBeforeAnyWrite ==
  (InCall /\ (args.export_tflite \/ args.export_coreml) /\ args.batch_size = None)
    => (call.pc # "done" /\ call.written = {})

\* C2: a call with export_coreml set and raveled_input = True fails, and has
\* written no file when it fails (the claim as stated; the code checks
\* raveled_input after the graph file, the tflite file or the bundle is
\* written)
C2_RaveledCoremlFailsBeforeAnyWrite ==
  (InCall /\ args.export_coreml /\ args.raveled_input)
    => (call.pc # "done" /\ call.written = {})

\* C3: with export_for_serving on, a call with export_tflite or export_coreml
\* set ends as the same call with both flags off ends, and writes the same
\* files (the claim as stated; with export_coreml the code goes on to the
\* coreml block after the bundle is saved and fails there)
C3_FlagsIgnoredWhenServing ==
  (Finished(call) /\ args.export_for_serving
     /\ (args.export_tflite \/ args.export_coreml))
    => LET off == [ args EXCEPT !.export_tflite = FALSE, !.export_coreml = FALSE ]
           ref == export(off, call.fs0, TRUE)
       IN /\ call.outcome = ref.outcome
          /\ call.written = ref.written
          /\ call.fs = ref.fs

\* C6: a checkpoint directory without a latest checkpoint makes export fail
\* with a ValueError before a session is opened, weights are restored or a
\* file is written; and the path restored is the resolved one
C6_CheckpointResolution ==
  /\ (InCall /\ isdir(args.checkpoint_path)
        /\ latest_checkpoint(args.checkpoint_path) = None)
       => /\ call.pc \in {"begin", "graph", "checkpoint", "failed"}
          /\ call.pc = "failed" => call.outcome = "ValueError"
          /\ ~call.sess
          /\ call.restored = None
          /\ call.written = {}
          /\ call.made \subseteq {ExportDir}
  /\ (InCall /\ call.restored # None)
       => call.restored =
            IF isdir(args.checkpoint_path)
            THEN latest_checkpoint(args.checkpoint_path)
            ELSE args.checkpoint_path

C6_Witness ==
  /\ call.pc = "failed" /\ call.outcome = "ValueError"
  /\ args.checkpoint_path = "empty_dir"
  /\ ~call.sess

\* C7: in serving mode a call whose version directory already holds files
\* (the bundle of an earlier call) fails, and leaves those files as they were
C7_ServingVersionCollision ==
  (InCall /\ args.export_for_serving
     /\ FilesUnder(call.fs0, VersionDir(args)) # {})
    => /\ call.pc # "done"
       /\ call.written = {}
       /\ FilesUnder(call.fs, VersionDir(args)) = FilesUnder(call.fs0, VersionDir(args))

C7_Witness ==
  /\ call.pc = "failed" /\ call.outcome = "AssertionError"
  /\ args.export_for_serving
  /\ BundleFile(args) \in call.fs0
  /\ calls = 2

\* C8: after a successful non-serving export the export directory and the
\* version directory exist and optimized_model.pb has been written; the
\* tflite file is written iff export_tflite, the mlmodel file iff
\* export_coreml, either only with a fixed batch size and the mlmodel only
\* with an input that is not raveled
C8_NonServingArtifacts ==
  (call.pc = "done" /\ ~args.export_for_serving)
    => /\ exists(call.fs, ExportDir)
       /\ exists(call.fs, VersionDir(args))
       /\ GraphFile(args) \in call.written
       /\ (TfliteFile(args) \in call.written) <=> args.export_tflite
       /\ (CoremlFile(args) \in call.written) <=> args.export_coreml
       /\ (TfliteFile(args) \in call.written) => args.batch_size # None
       /\ (CoremlFile(args) \in call.written)
            => (args.batch_size # None /\ ~args.raveled_input)
       /\ call.written \subseteq {GraphFile(args), TfliteFile(args), CoremlFile(args)}

C8_Witness ==
  /\ call.pc = "done" /\ ~args.export_for_serving
  /\ args.export_tflite /\ args.export_coreml
  /\ {GraphFile(args), TfliteFile(args), CoremlFile(args)} \subseteq call.written
  /\ VersionDir(args) \in call.made

\* C9: the signature map written with a serving bundle holds
\* 'predict_image_array' and the default serving key, bound to the same
\* image-array signature, holds 'predict_image_bytes' iff add_preprocess_step,
\* and every signature outputs 'scores', and 'classes' iff output_classes
BundleWritten == args.export_for_serving /\ BundleFile(args) \in call.written

C9_SignatureMap ==
  BundleWritten
    => LET m == call.signature_def_map
       IN /\ {"predict_image_array", DEFAULT_SERVING_SIGNATURE_DEF_KEY} \subseteq DOMAIN m
          /\ m["predict_image_array"] = m[DEFAULT_SERVING_SIGNATURE_DEF_KEY]
          /\ m["predict_image_array"].inputs["images"] = call.graph.input_placeholder
          /\ ("predict_image_bytes" \in DOMAIN m) <=> args.add_preprocess_step
          /\ ("predict_image_bytes" \in DOMAIN m)
               => m["predict_image_bytes"].inputs["images"]
                    = call.graph.image_bytes_placeholder
          /\ DOMAIN m \subseteq {"predict_image_array", "predict_image_bytes",
                                 DEFAULT_SERVING_SIGNATURE_DEF_KEY}
          /\ \A k \in DOMAIN m :
               /\ "scores" \in DOMAIN m[k].outputs
               /\ ("classes" \in DOMAIN m[k].outputs) <=> args.output_classes

C9_Witness ==
  /\ BundleWritten /\ call.pc = "done"
  /\ args.add_preprocess_step /\ args.output_classes
  /\ "predict_image_bytes" \in DOMAIN call.signature_def_map
  /\ "classes" \in DOMAIN call.signature_def_map["predict_image_bytes"].outputs

\* ------------------------------------------- the decoder: properties
Returned == dcall.pc = "returned"
Requested == dcall.features_to_fetch
RequestedKeys == { Requested[i][1] : i \in 1..Len(Requested) }
RequestedNames == { Requested[i][2] : i \in 1..Len(Requested) }

\* the 27 keys of the schema, as decode_example.py 19-45 lists them
RecognizedKeys ==
  { "image/height", "image/width", "image/colorspace", "image/channels",
    "image/format", "image/filename", "image/id", "image/encoded",
    "image/extra", "image/class/label", "image/class/text", "image/class/conf",
    "image/object/bbox/xmin", "image/object/bbox/xmax", "image/object/bbox/ymin",
    "image/object/bbox/ymax", "image/object/bbox/label", "image/object/bbox/text",
    "image/object/bbox/conf", "image/object/bbox/score", "image/object/parts/x",
    "image/object/parts/y", "image/object/parts/v", "image/object/parts/score",
    "image/object/count", "image/object/area", "image/object/id" }

\* C4: a request list with a key outside the schema, at any position, fails
\* with a KeyError before the record is parsed, and returns no mapping
C4_UnknownKeyFails ==
  (Returned /\ ~(RequestedKeys \subseteq RecognizedKeys))
    => /\ dcall.result.outcome = "KeyError"
       /\ ~dcall.result.parsed
       /\ ~dcall.result.returned
       /\ dcall.result.parsed_features = NoMap

C4_Witness ==
  /\ Returned
  /\ Len(Requested) = 2
  /\ Requested[1][1] \in RecognizedKeys
  /\ Requested[2][1] \notin RecognizedKeys
  /\ dcall.result.outcome = "KeyError"

\* the decoded value of a field, as the schema documents it: the flat values
\* of a variable-length field, the pixel tensor of the encoded image when
\* decoding is on, the parsed scalar otherwise
VarLenKeys ==
  { "image/object/bbox/xmin", "image/object/bbox/xmax", "image/object/bbox/ymin",
    "image/object/bbox/ymax", "image/object/bbox/label", "image/object/bbox/text",
    "image/object/bbox/conf", "image/object/bbox/score", "image/object/parts/x",
    "image/object/parts/y", "image/object/parts/v", "image/object/parts/score",
    "image/object/area", "image/object/id" }

DecodedValueOk(v, key) ==
  /\ v.key = key
  /\ v.kind = "Tensor"
  /\ IF key \in VarLenKeys THEN v.op = "values" /\ v.rank = 1
     ELSE IF key = "image/encoded" /\ dcall.decode_image
          THEN v.op = "decode_jpeg" /\ v.rank = 3
          ELSE v.op = "parse" /\ v.rank = 0

\* the key paired with the last occurrence of an output name
LastKeyOf(name) ==
  LET i == CHOOSE j \in 1..Len(Requested) :
             /\ Requested[j][2] = name
             /\ \A k \in (j + 1)..Len(Requested) : Requested[k][2] # name
  IN Requested[i][1]

\* C5 as stated: for every request list of recognized keys the call returns
\* a mapping whose keys are exactly the requested output names, each mapped
\* to the decoded value of the key it was paired with, the last pair winning
\* (fails for the empty list, which the record parser refuses)
C5_Original ==
  (Returned /\ RequestedKeys \subseteq RecognizedKeys)
    => /\ dcall.result.outcome = "ok"
       /\ dcall.result.returned
       /\ DOMAIN dcall.result.parsed_features = RequestedNames
       /\ \A name \in RequestedNames :
            DecodedValueOk(dcall.result.parsed_features[name], LastKeyOf(name))

\* C5: for a non-empty request list of recognized keys the call returns a
\* mapping whose keys are exactly the requested output names, each mapped to
\* the decoded value of the key it was paired with, the last pair winning for
\* a name that occurs more than once; for the empty list the call fails with
\* the record parser's ValueError and returns no mapping
C5_ResultMapping ==
  (Returned /\ RequestedKeys \subseteq RecognizedKeys)
    => IF Requested = << >>
       THEN /\ dcall.result.outcome = "ValueError"
            /\ ~dcall.result.returned
            /\ dcall.result.parsed_features = NoMap
       ELSE /\ dcall.result.outcome = "ok"
            /\ dcall.result.returned
            /\ DOMAIN dcall.result.parsed_features = RequestedNames
            /\ \A name \in RequestedNames :
                 DecodedValueOk(dcall.result.parsed_features[name], LastKeyOf(name))

C5_Witness ==
  /\ Returned /\ dcall.result.outcome = "ok"
  /\ Len(Requested) = 2
  /\ Requested[1][2] = Requested[2][2]
  /\ Requested[1][1] = "image/height"
  /\ Requested[2][1] = "image/object/bbox/xmin"
  /\ dcall.result.parsed_features[Requested[1][2]].op = "values"

\* C10: image bytes decode to exactly 3 channels whatever the source has:
\* the decoder's 'image/encoded' with decode_image on asks for 3 channels,
\* and the four conditionals of preprocess_image leave 3 channels for a
\* rank 2 image and for every channel count of a rank 3 image
C10_ThreeChannels ==
  /\ (Returned /\ dcall.decode_image /\ dcall.result.outcome = "ok")
       => \A name \in RequestedNames :
            LastKeyOf(name) = "image/encoded"
              => /\ dcall.result.parsed_features[name].op = "decode_jpeg"
                 /\ dcall.result.parsed_features[name].channels = 3
  /\ (img.pc \in {"rgb", "done"})
       => /\ img.image.rank = 3
          /\ img.image.channels = 3
          /\ img.image = [ preprocess_image(img.source)
                             EXCEPT !.resized = img.image.resized ]

C10_Witness ==
  /\ img.pc = "done"
  /\ img.source.rank = 3 /\ img.source.channels = 2
  /\ img.image.channels = 3 /\ img.image.resized

\* ------------------------------------------- export: the class output
GraphBuilt == InCall /\ call.pc \notin {"begin", "graph"}

\* C11: class names that are not None are embedded in every exported model
\* as the 'names' node (and as the 'classes' output of every signature of a
\* serving bundle), whatever output_classes is, and are left out only when
\* class_names is None (the claim as stated, after the docstrings of
\* export.py 4-20 and 64-65; the code builds the node only under
\* output_classes, 179-183)
C11_ClassNamesEmbedded ==
  /\ (GraphBuilt /\ args.class_names # None)
       => /\ "names" \in call.graph.nodes
          /\ call.graph.names_value = args.class_names
  /\ (BundleWritten /\ args.class_names # None)
       => \A k \in DOMAIN call.signature_def_map :
            "classes" \in DOMAIN call.signature_def_map[k].outputs
  /\ (GraphBuilt /\ call.graph.names_value # args.class_names)
       => args.class_names = None

\* ------------------------------------- the decoder: schema and dispatch
\* the kind the schema declares for a key
SchemaKind(key) == FeatureSchema[SchemaEntry(key)][2]

\* decode_example.py 56-113 against 19-45: each key of the schema has a branch
EveryKeyHasBranch == \A key \in SchemaKeys : Branch(key) # 0

\* the last pair of a name, for a call that returned a mapping
ResultOf(name) == dcall.result.parsed_features[name]
ReturnedOk == Returned /\ dcall.result.outcome = "ok"

\* C12 as stated: every key of the schema has a branch, so no requested key
\* is dropped, and a key's result is the flat values sequence iff the schema
\* declares it variable-length and the parsed scalar iff it declares it
\* fixed-length (fails for 'image/encoded', fixed-length in the schema, whose
\* result with decode_image on is the decoded pixel tensor)
C12_Original ==
  /\ EveryKeyHasBranch
  /\ (Returned /\ Requested # << >> /\ RequestedKeys \subseteq SchemaKeys)
       => ReturnedOk
  /\ ReturnedOk
       => /\ RequestedNames \subseteq DOMAIN dcall.result.parsed_features
          /\ \A name \in RequestedNames :
               /\ (ResultOf(name).op = "values")
                    <=> (SchemaKind(LastKeyOf(name)) = "VarLen")
               /\ (ResultOf(name).op = "parse" /\ ResultOf(name).rank = 0)
                    <=> (SchemaKind(LastKeyOf(name)) = "FixedLen")

\* C12: every one of the 27 keys of the schema has a branch, so no requested
\* key is dropped, and a key's result is the flat values sequence iff the
\* schema declares it variable-length, and is the parsed scalar, or for
\* 'image/encoded' with decode_image on the pixel tensor decoded from it, iff
\* the schema declares it fixed-length; a request of one or more schema keys
\* never fails on a branch that takes .values of a fixed-length feature
C12_DispatchAgreesWithSchema ==
  /\ Cardinality(SchemaKeys) = 27
  /\ EveryKeyHasBranch
  /\ (Returned /\ Requested # << >> /\ RequestedKeys \subseteq SchemaKeys)
       => ReturnedOk
  /\ ReturnedOk
       => /\ RequestedNames \subseteq DOMAIN dcall.result.parsed_features
          /\ \A name \in RequestedNames :
               LET key == LastKeyOf(name)
                   decoded == key = "image/encoded" /\ dcall.decode_image
               IN /\ ResultOf(name).key = key
                  /\ (ResultOf(name).op = "values" /\ ResultOf(name).rank = 1)
                       <=> (SchemaKind(key) = "VarLen")
                  /\ (IF decoded
                      THEN ResultOf(name).op = "decode_jpeg"
                      ELSE ResultOf(name).op = "parse" /\ ResultOf(name).rank = 0)
                       <=> (SchemaKind(key) = "FixedLen")

C12_Witness ==
  /\ ReturnedOk
  /\ Len(Requested) = 2
  /\ Requested[1][1] = "image/object/id" /\ Requested[2][1] = "image/object/count"
  /\ Requested[1][2] # Requested[2][2]
  /\ ResultOf(Requested[1][2]).op = "values"
  /\ ResultOf(Requested[2][2]).op = "parse"

\* -------------------------------------------- the decoder: decode_image
\* the same call with decode_image the other way
OtherDecodeImage ==
  decode_serialized_example(dcall.serialized_example, Requested, ~dcall.decode_image)

\* C13: decode_image is on when the caller leaves it out, and changes only
\* the result for 'image/encoded': off, that result is the stored byte string
\* as parsed, on, it is the decoded pixel tensor; for every other key, and in
\* how the call ends and which names it returns, the two settings agree
C13_DecodeImageFrame ==
  Returned
    => LET other == OtherDecodeImage
       IN
       /\ dcall.passed = "omitted" => dcall.decode_image
       /\ dcall.passed = "False" => ~dcall.decode_image
       /\ other.outcome = dcall.result.outcome
       /\ other.parsed = dcall.result.parsed
       /\ DOMAIN other.parsed_features = DOMAIN dcall.result.parsed_features
       /\ ReturnedOk
            => \A name \in RequestedNames :
                 IF LastKeyOf(name) = "image/encoded"
                 THEN IF dcall.decode_image
                      THEN /\ ResultOf(name).op = "decode_jpeg"
                           /\ ResultOf(name).rank = 3
                           /\ ResultOf(name).dtype = "uint8"
                      ELSE /\ ResultOf(name).op = "parse"
                           /\ ResultOf(name).rank = 0
                           /\ ResultOf(name).dtype = "string"
                           /\ ResultOf(name).key = "image/encoded"
                 ELSE other.parsed_features[name] = ResultOf(name)

C13_Witness ==
  /\ ReturnedOk /\ ~dcall.decode_image
  /\ Len(Requested) = 2
  /\ Requested[1] = <<"image/encoded", "x">>
  /\ Requested[2] = <<"image/extra", "y">>
  /\ ResultOf("x").op = "parse"
  /\ OtherDecodeImage.parsed_features["x"].op = "decode_jpeg"
  /\ OtherDecodeImage.parsed_features["y"] = ResultOf("y")

\* --------------------------------------- export: a version exported twice
\* the same call made again on the files this call leaves; a call that wrote
\* the mlmodel file had tfcoreml at hand
Again == export(args, call.fs, TRUE)

ArtifactFiles(files, a) == FilesUnder(files, VersionDir(a))

\* C14: a non-serving export makes no version check: the call that succeeded,
\* made again with the same arguments, succeeds again, writes
\* optimized_model.pb (and the tflite / mlmodel files when asked for) over
\* the existing ones and leaves the same files; and a non-serving call that
\* finds its graph file already there and returns has written it again and
\* has only added what it wrote
C14_NonServingRerun ==
  /\ (call.pc = "done" /\ ~args.export_for_serving)
       => /\ Again.pc = "done" /\ Again.outcome = "ok"
          /\ Again.written = call.written
          /\ GraphFile(args) \in Again.written
          /\ Again.made = {}
          /\ ArtifactFiles(Again.fs, args) = ArtifactFiles(call.fs, args)
          /\ Again.fs = call.fs
  /\ (InCall /\ ~args.export_for_serving /\ GraphFile(args) \in call.fs0
          /\ call.pc = "done")
       => /\ GraphFile(args) \in call.written
          /\ call.fs = call.fs0 \cup call.written

C14_Witness ==
  /\ call.pc = "done" /\ ~args.export_for_serving
  /\ calls = 2
  /\ args.export_tflite /\ args.export_coreml
  /\ {GraphFile(args), TfliteFile(args), CoremlFile(args)} \subseteq call.fs0
  /\ call.written = {GraphFile(args), TfliteFile(args), CoremlFile(args)}
  /\ call.fs = call.fs0

====
